---- MODULE Spec2Model ----
(***************************************************************************)
(* A model of the TickTick MCP server (ticktick_mcp/src/server.py).        *)
(*                                                                         *)
(* The state is the module-global client handle `ticktick`, the upstream   *)
(* service the handlers talk to (project listing, tasks per project, the   *)
(* clock) and a record of the last tool invocation: its arguments, the     *)
(* calls it made and what it returned.  Every tool handler is one action.  *)
(*                                                                         *)
(* Python values are represented as follows.                               *)
(*   - a dict entry is Absent (no such key), Null (key present, value      *)
(*     None) or Val(v);                                                    *)
(*   - a str that the code lower-cases or searches is a sequence of        *)
(*     one-character strings; other strs (ids, messages) are TLA+ strings; *)
(*   - an ISO-8601 date string is a record [body, day, hasT, zone];        *)
(*   - a datetime is a record [t, aware];                                  *)
(*   - rendered text is a sequence of strings (its concatenation).         *)
(***************************************************************************)
EXTENDS Integers, Sequences, FiniteSets, TLC

VARIABLES ticktick, projects, tasks_by_project, clock, tool, args, trace, ret

vars == <<ticktick, projects, tasks_by_project, clock, tool, args, trace, ret>>

(***************************************************************************)
(* Bounds.                                                                 *)
(***************************************************************************)
MaxTasks == 2
MaxNow == 2

(***************************************************************************)
(* Python values.                                                          *)
(***************************************************************************)
Absent == [k |-> "absent"]
Null == [k |-> "null"]
Val(x) == [k |-> "val", v |-> x]

\* dict.get(key, default): the default only replaces a missing key.
DictGet(entry, default) == IF entry.k = "absent" THEN default ELSE entry

IsVal(entry) == entry.k = "val"

SeqToSet(s) == {s[i] : i \in 1..Len(s)}

RECURSIVE Concat(_)
Concat(ss) == IF ss = <<>> THEN <<>> ELSE Head(ss) \o Concat(Tail(ss))

UpperChars == <<"A","B","C","D","E","F","G","H","I","J","K","L","M",
                "N","O","P","Q","R","S","T","U","V","W","X","Y","Z">>
LowerChars == <<"a","b","c","d","e","f","g","h","i","j","k","l","m",
                "n","o","p","q","r","s","t","u","v","w","x","y","z">>

LowerTable ==
    [c \in {UpperChars[i] : i \in 1..26} |->
        LowerChars[CHOOSE i \in 1..26 : UpperChars[i] = c]]

LowerChar(c) == IF c \in DOMAIN LowerTable THEN LowerTable[c] ELSE c

\* str.lower()
Lower(s) == [i \in 1..Len(s) |-> LowerChar(s[i])]

\* `needle in haystack` for two strs
IsSubstring(needle, haystack) ==
    \E i \in 0..(Len(haystack) - Len(needle)) :
        \A j \in 1..Len(needle) : haystack[i + j] = needle[j]

(***************************************************************************)
(* TaskPriority and TaskStatus.                                            *)
(***************************************************************************)
PRIORITY_NONE == 0
PRIORITY_LOW == 1
PRIORITY_MEDIUM == 3
PRIORITY_HIGH == 5
STATUS_ACTIVE == 0
STATUS_COMPLETED == 2

PriorityValues == {PRIORITY_NONE, PRIORITY_LOW, PRIORITY_MEDIUM, PRIORITY_HIGH}

\* TaskPriority.is_valid, applied to a dict entry or an argument
is_valid(value) == IsVal(value) /\ value.v \in PriorityValues

\* TaskPriority.label
label(value) ==
    IF ~is_valid(value)
    THEN IF IsVal(value) THEN <<ToString(value.v)>> ELSE <<"None">>
    ELSE IF value.v = PRIORITY_NONE THEN <<"None">>
    ELSE IF value.v = PRIORITY_LOW THEN <<"Low">>
    ELSE IF value.v = PRIORITY_MEDIUM THEN <<"Medium">>
    ELSE <<"High">>

(***************************************************************************)
(* Dates.                                                                  *)
(***************************************************************************)
BadDay == 0 - 1

DateStr(day, hasT, zone) == [body |-> "date", day |-> day, hasT |-> hasT, zone |-> zone]
JunkStr(hasT) == [body |-> "junk", day |-> BadDay, hasT |-> hasT, zone |-> ""]
EmptyStr == [body |-> "", day |-> BadDay, hasT |-> FALSE, zone |-> ""]

\* truth value of a str held in a dict entry or an argument
StrTruthy(entry) == IsVal(entry) /\ entry.v # EmptyStr

_normalize_date_input(date_str) ==
    IF ~date_str.hasT
    THEN [date_str EXCEPT !.hasT = TRUE, !.zone = "+0000"]
    ELSE date_str

\* date_str.replace("Z", "+00:00")
ReplaceZ(date_str) ==
    IF date_str.zone = "Z" THEN [date_str EXCEPT !.zone = "+00:00"] ELSE date_str

\* datetime.fromisoformat raises ValueError
IsoFormatError(date_str) == date_str.body # "date" \/ date_str.zone = "Z"

\* datetime.fromisoformat: a datetime is aware iff the string has an offset
fromisoformat(date_str) == [t |-> date_str.day, aware |-> date_str.zone # ""]

\* pydantic: Optional[datetime] field read from the upstream JSON
ValidateDatetime(entry) ==
    IF IsVal(entry)
    THEN Val([t |-> entry.v.day, aware |-> entry.v.zone # ""])
    ELSE Null

\* pydantic: model_dump(mode="json") of an Optional[datetime]
DumpDatetime(entry) ==
    IF IsVal(entry)
    THEN Val(DateStr(entry.v.t, TRUE, IF entry.v.aware THEN "Z" ELSE ""))
    ELSE Null

DateText(date_str) ==
    IF date_str.body = "date"
    THEN <<ToString(date_str.day)>> \o (IF date_str.hasT THEN <<"T">> ELSE <<>>)
         \o <<date_str.zone>>
    ELSE <<date_str.body>> \o (IF date_str.hasT THEN <<"T">> ELSE <<>>)

(***************************************************************************)
(* models.py                                                               *)
(***************************************************************************)
\* A task as the upstream returns it (a JSON object).
RawTask(id, projectId, title, content, dueDate, tags, status) ==
    [id |-> Val(id), projectId |-> Val(projectId), title |-> Val(title),
     content |-> content, desc |-> Absent, startDate |-> Absent,
     dueDate |-> dueDate, tags |-> tags, priority |-> Absent, status |-> status,
     items |-> Absent, url |-> Absent]

\* Task.model_validate(raw).model_dump(by_alias=True, mode="json"): every
\* field of the model is present in the dump, None where it was not given.
OptionalField(entry) == IF entry.k = "absent" THEN Null ELSE entry
ListField(entry) == IF entry.k = "absent" THEN Val(<<>>) ELSE entry

model_dump(raw) ==
    [id |-> raw.id, projectId |-> raw.projectId, title |-> raw.title,
     content |-> OptionalField(raw.content),
     desc |-> OptionalField(raw.desc),
     startDate |-> DumpDatetime(ValidateDatetime(raw.startDate)),
     dueDate |-> DumpDatetime(ValidateDatetime(raw.dueDate)),
     tags |-> ListField(raw.tags),
     priority |-> OptionalField(raw.priority),
     status |-> OptionalField(raw.status),
     items |-> ListField(raw.items),
     url |-> Absent]

ProjectDict(id, name) ==
    [id |-> Val(id), name |-> Val(name), color |-> Absent, viewMode |-> Absent,
     closed |-> Absent, kind |-> Absent]

(***************************************************************************)
(* Helpers of server.py                                                    *)
(***************************************************************************)
\* task_url with the two ids swapped
task_url_swapped(project_id, task_id) ==
    <<"https://ticktick.com/webapp/#p/", task_id, "/tasks/", project_id>>

task_url(project_id, task_id) ==
    <<"https://ticktick.com/webapp/#p/", project_id, "/tasks/", task_id>>

inbox_project == ProjectDict("inbox", "Inbox")

\* ensure_inbox_project_included without the test for an inbox entry
ensure_inbox_always_appends(ps) == Append(ps, inbox_project)

ensure_inbox_project_included(ps) ==
    IF ~\E i \in 1..Len(ps) : ps[i].id = Val("inbox")
    THEN Append(ps, inbox_project)
    ELSE ps

Line(lbl, text) == [label |-> lbl, text |-> text]

StrText(entry, default) ==
    IF entry.k = "absent" THEN <<default>>
    ELSE IF entry.k = "null" THEN <<"None">>
    ELSE <<entry.v>>

RECURSIVE JoinTags(_)
JoinTags(ts) ==
    IF Len(ts) = 0 THEN <<>>
    ELSE IF Len(ts) = 1 THEN ts[1]
    ELSE ts[1] \o <<", ">> \o JoinTags(Tail(ts))

SubtaskLine(i, item) ==
    Line("Subtask",
         <<ToString(i), ". [", IF item.status = Val(1) THEN "x" ELSE " ", "] ">>
         \o (IF IsVal(item.title) THEN item.title.v ELSE <<"No title">>))

\* StatusLabel without the Completed branch
StatusLabel_always_active(status_value) == <<"Active">>

StatusLabel(status_value) ==
    IF status_value = Val(STATUS_COMPLETED) THEN <<"Completed">> ELSE <<"Active">>

format_task(task) ==
    LET tags == IF IsVal(task.tags) THEN task.tags.v ELSE <<>>
        items == IF IsVal(task.items) THEN task.items.v ELSE <<>>
    IN  <<Line("ID", StrText(task.id, "No ID")),
          Line("Title", IF IsVal(task.title) THEN task.title.v ELSE <<"No title">>),
          Line("Project ID", StrText(task.projectId, "None"))>>
        \o (IF IsVal(task.url) THEN <<Line("URL", task.url.v)>> ELSE <<>>)
        \o (IF StrTruthy(task.startDate)
            THEN <<Line("Start Date", DateText(task.startDate.v))>> ELSE <<>>)
        \o (IF StrTruthy(task.dueDate)
            THEN <<Line("Due Date", DateText(task.dueDate.v))>> ELSE <<>>)
        \o <<Line("Priority", label(DictGet(task.priority, Val(PRIORITY_NONE)))),
             Line("Status", StatusLabel(task.status))>>
        \o (IF tags # <<>> THEN <<Line("Tags", JoinTags(tags))>> ELSE <<>>)
        \o (IF IsVal(task.content) /\ task.content.v # <<>>
            THEN <<Line("Content", task.content.v)>> ELSE <<>>)
        \o (IF items # <<>>
            THEN <<Line("Subtasks", <<ToString(Len(items))>>)>>
                 \o [i \in 1..Len(items) |-> SubtaskLine(i, items[i])]
            ELSE <<>>)

format_project(project) ==
    <<Line("Name", StrText(project.name, "No name")),
      Line("ID", StrText(project.id, "No ID"))>>
    \o (IF IsVal(project.color) /\ project.color.v # ""
        THEN <<Line("Color", <<project.color.v>>)>> ELSE <<>>)
    \o (IF IsVal(project.viewMode) /\ project.viewMode.v # ""
        THEN <<Line("View Mode", <<project.viewMode.v>>)>> ELSE <<>>)
    \o (IF project.closed.k # "absent"
        THEN <<Line("Closed", IF project.closed = Val(TRUE) THEN <<"Yes">> ELSE <<"No">>)>>
        ELSE <<>>)
    \o (IF IsVal(project.kind) /\ project.kind.v # ""
        THEN <<Line("Kind", <<project.kind.v>>)>> ELSE <<>>)

(***************************************************************************)
(* The upstream client (ticktick_client.TickTickClient) as the handlers    *)
(* see it: every call has an outcome, logged in the trace of the           *)
(* invocation.                                                             *)
(*   "ok"         the record (or list, or ProjectData) asked for           *)
(*   "error"      a dict with the sentinel key 'error'                     *)
(*   "none"       None                                                     *)
(*   "raise"      an exception other than ValueError                       *)
(*   "ValueError" a ValueError (pydantic's ValidationError is one)         *)
(***************************************************************************)
Ev(op, target, outcome) == [op |-> op, target |-> target, outcome |-> outcome]

UpstreamOps == {"get_projects", "get_project", "get_project_with_data_model",
                "get_task", "create_task", "update_task", "complete_task",
                "delete_task", "create_project", "delete_project"}

Fault(op, target, kind) == [op |-> op, target |-> target, kind |-> kind]

Outcome(faults, op, target) ==
    IF \E f \in faults : f.op = op /\ f.target = target
    THEN (CHOOSE f \in faults : f.op = op /\ f.target = target).kind
    ELSE "ok"

UpstreamErrorText == "HTTP 500"

\* str(e) of the exception a handler meets after an upstream outcome
ExcText(outcome, attr) ==
    IF outcome = "raise" THEN <<"upstream failure">>
    ELSE IF attr = "" THEN <<"argument of type 'NoneType' is not iterable">>
    ELSE IF outcome = "none"
         THEN <<"'NoneType' object has no attribute '", attr, "'">>
         ELSE <<"'dict' object has no attribute '", attr, "'">>

(***************************************************************************)
(* What an invocation returns.                                             *)
(***************************************************************************)
Text(head, detail) ==
    [kind |-> "return", head |-> head, detail |-> detail,
     tasks |-> <<>>, blocks |-> <<>>]

Report(head, detail, tasks, blocks) ==
    [kind |-> "return", head |-> head, detail |-> detail,
     tasks |-> tasks, blocks |-> blocks]

Raise(exc, detail) ==
    [kind |-> "raise", head |-> exc, detail |-> detail,
     tasks |-> <<>>, blocks |-> <<>>]

Run(handle, tr, r) == [ticktick |-> handle, trace |-> tr, ret |-> r]

FAILED_INIT == "Failed to initialize TickTick client. Please check your API credentials."

(***************************************************************************)
(* initialize_client.  env is what the environment does to this attempt:   *)
(*   "no_token"          TICKTICK_ACCESS_TOKEN is not set                  *)
(*   "construct_raises"  TickTickClient() raises                           *)
(*   "probe_error" / "probe_none" / "probe_raises" / "ok"                  *)
(*                       the outcome of the connectivity test              *)
(***************************************************************************)
InitEnvs == {"no_token", "construct_raises", "probe_error", "probe_none",
             "probe_raises", "ok"}

ProbeOutcome(env) ==
    IF env = "probe_error" THEN "error"
    ELSE IF env = "probe_none" THEN "none"
    ELSE IF env = "probe_raises" THEN "raise"
    ELSE "ok"

\* initialize_client without the return on a missing token
initialize_client_ignores_token(handle, env) ==
    IF env = "construct_raises"
    THEN [ok |-> FALSE, ticktick |-> handle,
          trace |-> <<Ev("initialize_client", "", "construct_raises"),
                      Ev("TickTickClient", "", "raise")>>]
    ELSE [ok |-> ProbeOutcome(env) = "ok", ticktick |-> "client",
          trace |-> <<Ev("initialize_client", "", env),
                      Ev("TickTickClient", "", "ok"),
                      Ev("get_projects", "", ProbeOutcome(env))>>]

initialize_client(handle, env) ==
    IF env = "no_token"
    THEN [ok |-> FALSE, ticktick |-> handle,
          trace |-> <<Ev("initialize_client", "", "no_token")>>]
    ELSE IF env = "construct_raises"
    THEN [ok |-> FALSE, ticktick |-> handle,
          trace |-> <<Ev("initialize_client", "", "construct_raises"),
                      Ev("TickTickClient", "", "raise")>>]
    ELSE [ok |-> ProbeOutcome(env) = "ok", ticktick |-> "client",
          trace |-> <<Ev("initialize_client", "", env),
                      Ev("TickTickClient", "", "ok"),
                      Ev("get_projects", "", ProbeOutcome(env))>>]

\* EnsureClient without the check of the handle
EnsureClient_always_initializes(handle, env) == initialize_client(handle, env)

\* if not ticktick: if not initialize_client(): return ...
EnsureClient(handle, env) ==
    IF handle # "None"
    THEN [ok |-> TRUE, ticktick |-> handle, trace |-> <<>>]
    ELSE initialize_client(handle, env)

(***************************************************************************)
(* get_projects / get_project                                              *)
(***************************************************************************)
get_projects_run(handle, env, faults, listing) ==
    LET pre == EnsureClient(handle, env)
        out == Outcome(faults, "get_projects", "")
        tr == pre.trace \o <<Ev("get_projects", "", out)>>
        ps == ensure_inbox_project_included(listing)
    IN  IF ~pre.ok THEN Run(pre.ticktick, pre.trace, Text(FAILED_INIT, <<>>))
        ELSE IF out = "error"
        THEN Run(pre.ticktick, tr, Text("Error fetching projects: ", <<UpstreamErrorText>>))
        ELSE IF out # "ok"
        THEN Run(pre.ticktick, tr, Text("Error retrieving projects: ", ExcText(out, "")))
        ELSE IF ps = <<>>
        THEN Run(pre.ticktick, tr, Text("No projects found.", <<>>))
        ELSE Run(pre.ticktick, tr,
                 Report("Found projects:", <<ToString(Len(ps))>>, <<>>,
                        [i \in 1..Len(ps) |-> format_project(ps[i])]))

get_project_run(handle, env, faults, listing, project_id) ==
    LET pre == EnsureClient(handle, env)
        out == Outcome(faults, "get_project", project_id)
        tr == pre.trace \o <<Ev("get_project", project_id, out)>>
        found == SelectSeq(listing, LAMBDA p : p.id = Val(project_id))
    IN  IF ~pre.ok THEN Run(pre.ticktick, pre.trace, Text(FAILED_INIT, <<>>))
        ELSE IF out = "error" \/ (out = "ok" /\ found = <<>>)
        THEN Run(pre.ticktick, tr, Text("Error fetching project: ", <<UpstreamErrorText>>))
        ELSE IF out # "ok"
        THEN Run(pre.ticktick, tr, Text("Error retrieving project: ", ExcText(out, "")))
        ELSE Run(pre.ticktick, tr,
                 Report("", <<>>, <<>>, <<format_project(found[1])>>))

(***************************************************************************)
(* The aggregation loop shared by get_tasks and search_tasks: for every    *)
(* listed project (the given one only, when project_id is truthy) fetch    *)
(* the project data, dump its tasks and attach the URL.  Only ValueError   *)
(* is caught inside the loop; anything else leaves the loop and reaches    *)
(* the handler's outer `except Exception`.                                 *)
(***************************************************************************)
IdTruthy(entry) == IsVal(entry) /\ entry.v # ""

DumpTasks(pid, raws) ==
    [i \in 1..Len(raws) |->
        [model_dump(raws[i]) EXCEPT !.url = Val(task_url(pid, raws[i].id.v))]]

RECURSIVE FetchLoop(_, _, _, _, _)
FetchLoop(ps, project_id, faults, store, acc) ==
    IF ps = <<>> THEN acc
    ELSE LET pid == Head(ps).id
             out == Outcome(faults, "get_project_with_data_model", pid.v)
             tr == acc.trace \o <<Ev("get_project_with_data_model", pid.v, out)>>
         IN  IF IdTruthy(project_id) /\ pid # project_id
             THEN FetchLoop(Tail(ps), project_id, faults, store, acc)
             ELSE IF out = "ok"
             THEN FetchLoop(Tail(ps), project_id, faults, store,
                            [acc EXCEPT !.trace = tr,
                                        !.tasks = @ \o DumpTasks(pid.v, store[pid.v])])
             ELSE IF out = "ValueError"
             THEN FetchLoop(Tail(ps), project_id, faults, store,
                            [acc EXCEPT !.trace = tr])
             ELSE [acc EXCEPT !.trace = tr, !.exc = ExcText(out, "tasks")]

\* Collect with the inbox put in front of the listing
Collect_inbox_first(listing, project_id, faults, store) ==
    FetchLoop(<<inbox_project>> \o listing, project_id, faults, store,
              [tasks |-> <<>>, trace |-> <<>>, exc |-> <<>>])

Collect(listing, project_id, faults, store) ==
    FetchLoop(ensure_inbox_project_included(listing), project_id, faults, store,
              [tasks |-> <<>>, trace |-> <<>>, exc |-> <<>>])

(***************************************************************************)
(* get_tasks                                                               *)
(***************************************************************************)
WINDOW_DAYS == 7

ACTIVE == <<"a","c","t","i","v","e">>
ACTIVE_MIXED == <<"A","c","t","i","v","e">>
COMPLETED == <<"c","o","m","p","l","e","t","e","d">>

\* TagsMatch with `in` applied to a str instead of the list of tags
TagsMatch_by_substring(task, tags) ==
    LET task_tags == [i \in 1..Len(task.tags.v) |-> Lower(task.tags.v[i])]
    IN  \E i \in 1..Len(tags) : \E j \in 1..Len(task_tags) :
            IsSubstring(Lower(tags[i]), task_tags[j])

\* any(tag.lower() in task_tags for tag in tags)
TagsMatch(task, tags) ==
    LET task_tags == [i \in 1..Len(task.tags.v) |-> Lower(task.tags.v[i])]
    IN  \E i \in 1..Len(tags) : Lower(tags[i]) \in SeqToSet(task_tags)

\* status_excluded with "active" read as status == 0
status_excluded_only_zero_active(status, status_value) ==
    /\ IsVal(status)
    /\ \/ Lower(status.v) = ACTIVE /\ status_value # Val(STATUS_ACTIVE)
       \/ Lower(status.v) = COMPLETED /\ status_value # Val(STATUS_COMPLETED)

\* The status filter: the task is dropped (`continue`).
status_excluded(status, status_value) ==
    /\ IsVal(status)
    /\ \/ Lower(status.v) = ACTIVE /\ status_value = Val(STATUS_COMPLETED)
       \/ Lower(status.v) = COMPLETED /\ status_value # Val(STATUS_COMPLETED)

\* include_rel with the end of the window excluded
include_rel_open_end(due_dt, now, overdue_only, due_in_next_7_days) ==
    LET end == now + WINDOW_DAYS
        is_overdue == due_dt.t < now
        is_next_7_days == now <= due_dt.t /\ due_dt.t < end
    IN  (overdue_only /\ is_overdue) \/ (due_in_next_7_days /\ is_next_7_days)

\* include_rel of the relative date filter, for a due date that compares.
include_rel(due_dt, now, overdue_only, due_in_next_7_days) ==
    LET end == now + WINDOW_DAYS
        is_overdue == due_dt.t < now
        is_next_7_days == now <= due_dt.t /\ due_dt.t <= end
    IN  (overdue_only /\ is_overdue) \/ (due_in_next_7_days /\ is_next_7_days)

\* get_tasks_step with the relative date filter applied to completed tasks too
get_tasks_step_dates_keep_completed(task, now, overdue_only, due_in_next_7_days, status, tags) ==
    LET status_value == task.status
        relative == overdue_only \/ due_in_next_7_days
        due_dt == fromisoformat(ReplaceZ(task.dueDate.v))
    IN  IF status_excluded(status, status_value)
        THEN "skip"
        ELSE IF relative /\ ~StrTruthy(task.dueDate)
        THEN "skip"
        ELSE IF relative /\ IsoFormatError(ReplaceZ(task.dueDate.v))
        THEN "skip"
        ELSE IF relative /\ ~due_dt.aware
        THEN "TypeError"
        ELSE IF relative /\ ~include_rel(due_dt, now, overdue_only, due_in_next_7_days)
        THEN "skip"
        ELSE IF IsVal(tags) /\ tags.v # <<>> /\ ~TagsMatch(task, tags.v)
        THEN "skip"
        ELSE "keep"

\* One turn of the filter loop of get_tasks: "keep" (append), "skip"
\* (continue) or "TypeError" (an aware and a naive datetime are compared).
get_tasks_step(task, now, overdue_only, due_in_next_7_days, status, tags) ==
    LET status_value == task.status
        relative == overdue_only \/ due_in_next_7_days
        due_dt == fromisoformat(ReplaceZ(task.dueDate.v))
    IN  IF status_excluded(status, status_value)
        THEN "skip"
        ELSE IF relative /\ status_value = Val(STATUS_COMPLETED)
        THEN "skip"
        ELSE IF relative /\ ~StrTruthy(task.dueDate)
        THEN "skip"
        ELSE IF relative /\ IsoFormatError(ReplaceZ(task.dueDate.v))
        THEN "skip"
        ELSE IF relative /\ ~due_dt.aware
        THEN "TypeError"
        ELSE IF relative /\ ~include_rel(due_dt, now, overdue_only, due_in_next_7_days)
        THEN "skip"
        ELSE IF IsVal(tags) /\ tags.v # <<>> /\ ~TagsMatch(task, tags.v)
        THEN "skip"
        ELSE "keep"

\* NoTasksText without the project id
NoTasksText_ignores_project(project_id) == Text("No tasks found.", <<>>)

NoTasksText(project_id) ==
    IF IdTruthy(project_id)
    THEN Text("No tasks found in project '", <<project_id.v, "'.">>)
    ELSE Text("No tasks found.", <<>>)

\* The filter loop: the first TypeError ends it.
get_tasks_filter(all_tasks, now, overdue_only, due_in_next_7_days, status, tags) ==
    LET step(t) == get_tasks_step(t, now, overdue_only, due_in_next_7_days, status, tags)
        Keep(t) == step(t) = "keep"
    IN  IF \E i \in 1..Len(all_tasks) : step(all_tasks[i]) = "TypeError"
        THEN [tasks |-> <<>>,
              exc |-> <<"can't compare offset-naive and offset-aware datetimes">>]
        ELSE [tasks |-> SelectSeq(all_tasks, Keep), exc |-> <<>>]

get_tasks_run(handle, env, faults, listing, store, now, project_id, overdue_only, due_in_next_7_days, status, tags) ==
    LET pre == EnsureClient(handle, env)
        out == Outcome(faults, "get_projects", "")
        tr == pre.trace \o <<Ev("get_projects", "", out)>>
        got == Collect(listing, project_id, faults, store)
        flt == get_tasks_filter(got.tasks, now, overdue_only, due_in_next_7_days,
                                status, tags)
    IN  IF ~pre.ok THEN Run(pre.ticktick, pre.trace, Text(FAILED_INIT, <<>>))
        ELSE IF out = "error"
        THEN Run(pre.ticktick, tr,
                 Text("Error getting projects for task retrieval: ", <<UpstreamErrorText>>))
        ELSE IF out # "ok"
        THEN Run(pre.ticktick, tr, Text("Error getting tasks: ", ExcText(out, "")))
        ELSE IF got.exc # <<>>
        THEN Run(pre.ticktick, tr \o got.trace, Text("Error getting tasks: ", got.exc))
        ELSE IF got.tasks = <<>>
        THEN Run(pre.ticktick, tr \o got.trace, NoTasksText(project_id))
        ELSE IF flt.exc # <<>>
        THEN Run(pre.ticktick, tr \o got.trace, Text("Error getting tasks: ", flt.exc))
        ELSE IF flt.tasks = <<>>
        THEN Run(pre.ticktick, tr \o got.trace, NoTasksText(project_id))
        ELSE Run(pre.ticktick, tr \o got.trace,
                 Report("Found tasks:", <<>>, flt.tasks,
                        [i \in 1..Len(flt.tasks) |-> format_task(flt.tasks[i])]))

(***************************************************************************)
(* search_tasks                                                            *)
(***************************************************************************)
\* One turn of the filter loop of search_tasks: "keep", "skip" or
\* "AttributeError" (content is None and None has no lower()).
search_tasks_step(task, keywords, tags) ==
    LET title == Lower(DictGet(task.title, Val(<<>>)).v)
        content == Lower(DictGet(task.content, Val(<<>>)).v)
        matches_keywords ==
            keywords = <<>>
            \/ \E i \in 1..Len(keywords) :
                   \/ IsSubstring(Lower(keywords[i]), title)
                   \/ IsSubstring(Lower(keywords[i]), content)
    IN  IF ~IsVal(DictGet(task.content, Val(<<>>)))
        THEN "AttributeError"
        ELSE IF ~matches_keywords
        THEN "skip"
        ELSE IF IsVal(tags) /\ tags.v # <<>> /\ ~TagsMatch(task, tags.v)
        THEN "skip"
        ELSE "keep"

search_tasks_filter(all_tasks, keywords, tags) ==
    LET step(t) == search_tasks_step(t, keywords, tags)
        Keep(t) == step(t) = "keep"
    IN  IF \E i \in 1..Len(all_tasks) : step(all_tasks[i]) = "AttributeError"
        THEN [tasks |-> <<>>,
              exc |-> <<"'NoneType' object has no attribute 'lower'">>]
        ELSE [tasks |-> SelectSeq(all_tasks, Keep), exc |-> <<>>]

\* The parameters of search_tasks are keywords, project_id and tags: a call
\* that passes status= fails to bind and raises TypeError before the body.
search_tasks_run(handle, env, faults, listing, store, keywords, project_id, tags, status) ==
    LET pre == EnsureClient(handle, env)
        out == Outcome(faults, "get_projects", "")
        tr == pre.trace \o <<Ev("get_projects", "", out)>>
        got == Collect(listing, project_id, faults, store)
        flt == search_tasks_filter(got.tasks, keywords, tags)
    IN  IF status # Absent
        THEN Run(handle, <<>>,
                 Raise("TypeError",
                       <<"search_tasks() got an unexpected keyword argument 'status'">>))
        ELSE IF ~pre.ok THEN Run(pre.ticktick, pre.trace, Text(FAILED_INIT, <<>>))
        ELSE IF out = "error"
        THEN Run(pre.ticktick, tr,
                 Text("Error getting projects for task search: ", <<UpstreamErrorText>>))
        ELSE IF out # "ok"
        THEN Run(pre.ticktick, tr, Text("Error searching tasks: ", ExcText(out, "")))
        ELSE IF got.exc # <<>>
        THEN Run(pre.ticktick, tr \o got.trace, Text("Error searching tasks: ", got.exc))
        ELSE IF flt.exc # <<>>
        THEN Run(pre.ticktick, tr \o got.trace, Text("Error searching tasks: ", flt.exc))
        ELSE IF flt.tasks = <<>>
        THEN Run(pre.ticktick, tr \o got.trace,
                 Text("No tasks found matching the provided keywords.", <<>>))
        ELSE Run(pre.ticktick, tr \o got.trace,
                 Report("Found tasks:", <<>>, flt.tasks,
                        [i \in 1..Len(flt.tasks) |-> format_task(flt.tasks[i])]))

(***************************************************************************)
(* get_task, create_task, update_task, complete_task, delete_task,         *)
(* create_project, delete_project                                          *)
(***************************************************************************)
\* The handlers with one upstream call end the same way on a sentinel, on
\* None and on an exception; `good` is what they return otherwise.
\* AfterCall that repeats the call once after a sentinel
AfterCall_retries(pre, op, target, out, errHead, excHead, good) ==
    LET tr == pre.trace \o <<Ev(op, target, out)>>
    IN  IF out = "error"
        THEN Run(pre.ticktick, tr \o <<Ev(op, target, "ok")>>, good)
        ELSE IF out # "ok"
        THEN Run(pre.ticktick, tr, Text(excHead, ExcText(out, "")))
        ELSE Run(pre.ticktick, tr, good)

AfterCall(pre, op, target, out, errHead, excHead, good) ==
    LET tr == pre.trace \o <<Ev(op, target, out)>>
    IN  IF out = "error"
        THEN Run(pre.ticktick, tr, Text(errHead, <<UpstreamErrorText>>))
        ELSE IF out # "ok"
        THEN Run(pre.ticktick, tr, Text(excHead, ExcText(out, "")))
        ELSE Run(pre.ticktick, tr, good)

get_task_run(handle, env, faults, store, project_id, task_id) ==
    LET pre == EnsureClient(handle, env)
        found == SelectSeq(store[project_id], LAMBDA t : t.id = Val(task_id))
        out == IF Outcome(faults, "get_task", task_id) = "ok" /\ found = <<>>
               THEN "none"
               ELSE Outcome(faults, "get_task", task_id)
        task == [found[1] EXCEPT !.url = Val(task_url(project_id, found[1].id.v))]
    IN  IF ~pre.ok THEN Run(pre.ticktick, pre.trace, Text(FAILED_INIT, <<>>))
        ELSE AfterCall(pre, "get_task", task_id, out,
                       "Error fetching task: ", "Error retrieving task: ",
                       Report("", <<>>, <<task>>, <<format_task(task)>>))

\* The first date argument that is given and does not parse, "" if none.
BadDateName(start_date, due_date) ==
    IF StrTruthy(start_date)
       /\ IsoFormatError(ReplaceZ(_normalize_date_input(start_date.v)))
    THEN "start_date"
    ELSE IF StrTruthy(due_date)
            /\ IsoFormatError(ReplaceZ(_normalize_date_input(due_date.v)))
    THEN "due_date"
    ELSE ""

NormalizedDate(date) ==
    IF StrTruthy(date) THEN Val(_normalize_date_input(date.v)) ELSE date

\* The task record the upstream answers create_task / update_task with.
UpstreamTask(task_id, project_id, title, content, start_date, due_date, priority) ==
    [id |-> Val(task_id), projectId |-> Val(project_id), title |-> title,
     content |-> content, desc |-> Absent, startDate |-> start_date,
     dueDate |-> due_date, tags |-> Absent, priority |-> priority, status |-> Val(STATUS_ACTIVE),
     items |-> Absent, url |-> Absent]

INVALID_PRIORITY == "Invalid priority. Must be 0 (None), 1 (Low), 3 (Medium), or 5 (High)."
INVALID_VIEW_MODE == "Invalid view_mode. Must be one of: list, kanban, timeline."

InvalidDateText(date_name) ==
    Text("Invalid date format. Use ISO format: YYYY-MM-DDThh:mm:ss+0000", <<date_name>>)

create_task_run(handle, env, faults, title, project_id, content, start_date, due_date, priority) ==
    LET pre == EnsureClient(handle, env)
        out == Outcome(faults, "create_task", project_id)
        bad == BadDateName(start_date, due_date)
        task == UpstreamTask("new-task", project_id, Val(title), content,
                             NormalizedDate(start_date), NormalizedDate(due_date),
                             priority)
        shown == [task EXCEPT !.url = Val(task_url(project_id, task.id.v))]
    IN  IF ~pre.ok THEN Run(pre.ticktick, pre.trace, Text(FAILED_INIT, <<>>))
        ELSE IF ~is_valid(priority)
        THEN Run(pre.ticktick, pre.trace, Text(INVALID_PRIORITY, <<>>))
        ELSE IF bad # ""
        THEN Run(pre.ticktick, pre.trace, InvalidDateText(bad))
        ELSE AfterCall(pre, "create_task", project_id, out,
                       "Error creating task: ", "Error creating task: ",
                       Report("Task created successfully:", <<>>, <<shown>>,
                              <<format_task(shown)>>))

update_task_run(handle, env, faults, store, task_id, project_id, title, content, start_date, due_date, priority) ==
    LET pre == EnsureClient(handle, env)
        out == Outcome(faults, "update_task", task_id)
        bad == BadDateName(start_date, due_date)
        task == UpstreamTask(task_id, project_id, title, content,
                             NormalizedDate(start_date), NormalizedDate(due_date),
                             priority)
        shown == [task EXCEPT !.url = Val(task_url(project_id, task.id.v))]
    IN  IF ~pre.ok THEN Run(pre.ticktick, pre.trace, Text(FAILED_INIT, <<>>))
        ELSE IF priority # Null /\ ~is_valid(priority)
        THEN Run(pre.ticktick, pre.trace, Text(INVALID_PRIORITY, <<>>))
        ELSE IF bad # ""
        THEN Run(pre.ticktick, pre.trace, InvalidDateText(bad))
        ELSE AfterCall(pre, "update_task", task_id, out,
                       "Error updating task: ", "Error updating task: ",
                       Report("Task updated successfully:", <<>>, <<shown>>,
                              <<format_task(shown)>>))

complete_task_run(handle, env, faults, project_id, task_id) ==
    LET pre == EnsureClient(handle, env)
    IN  IF ~pre.ok THEN Run(pre.ticktick, pre.trace, Text(FAILED_INIT, <<>>))
        ELSE AfterCall(pre, "complete_task", task_id,
                       Outcome(faults, "complete_task", task_id),
                       "Error completing task: ", "Error completing task: ",
                       Text("Task marked as complete.", <<task_id>>))

delete_task_run(handle, env, faults, project_id, task_id) ==
    LET pre == EnsureClient(handle, env)
    IN  IF ~pre.ok THEN Run(pre.ticktick, pre.trace, Text(FAILED_INIT, <<>>))
        ELSE AfterCall(pre, "delete_task", task_id,
                       Outcome(faults, "delete_task", task_id),
                       "Error deleting task: ", "Error deleting task: ",
                       Text("Task deleted successfully.", <<task_id>>))

ViewModes == {"list", "kanban", "timeline"}

create_project_run(handle, env, faults, name, color, view_mode) ==
    LET pre == EnsureClient(handle, env)
        project == [ProjectDict("new-project", name)
                        EXCEPT !.color = Val(color), !.viewMode = Val(view_mode)]
    IN  IF ~pre.ok THEN Run(pre.ticktick, pre.trace, Text(FAILED_INIT, <<>>))
        ELSE IF view_mode \notin ViewModes
        THEN Run(pre.ticktick, pre.trace, Text(INVALID_VIEW_MODE, <<>>))
        ELSE AfterCall(pre, "create_project", name,
                       Outcome(faults, "create_project", name),
                       "Error creating project: ", "Error creating project: ",
                       Report("Project created successfully:", <<>>, <<>>,
                              <<format_project(project)>>))

delete_project_run(handle, env, faults, project_id) ==
    LET pre == EnsureClient(handle, env)
    IN  IF ~pre.ok THEN Run(pre.ticktick, pre.trace, Text(FAILED_INIT, <<>>))
        ELSE AfterCall(pre, "delete_project", project_id,
                       Outcome(faults, "delete_project", project_id),
                       "Error deleting project: ", "Error deleting project: ",
                       Text("Project deleted successfully.", <<project_id>>))

(***************************************************************************)
(* The state machine.                                                      *)
(***************************************************************************)
ProjectIds == {"project-1", "project-2", "inbox"}

MILK == <<"M","i","l","k">>
OAT_MILK == <<"o","a","t"," ","m","i","l","k">>
REPORT == <<"R","e","p","o","r","t">>
WEEK1 == <<"w","e","e","k","1">>
WEEK1_UPPER == <<"W","E","E","K","1">>
WEEK == <<"w","e","e","k">>
DAY30 == <<"3","0","D","a","y">>
NOTE == <<"n","o","t","e">>
EGGS == <<"e","g","g","s">>

\* An upstream account in the shape of the one in test_search_tasks.py: two
\* listed projects and the inbox, holding an active task, a completed one, one
\* of status 5 and one without due date or tags.
Listing == <<ProjectDict("project-1", "Project 1"), ProjectDict("project-2", "Project 2")>>

FixtureTasks ==
    [p \in ProjectIds |->
        IF p = "project-1"
        THEN <<[RawTask("task-1", p, MILK, Val(OAT_MILK),
                        Val(DateStr(0, TRUE, "+0000")), Val(<<WEEK1>>), Val(0))
                   EXCEPT !.startDate = Val(DateStr(0, TRUE, "+0000")),
                          !.priority = Val(PRIORITY_MEDIUM)],
               RawTask("task-5", p, REPORT, Val(REPORT),
                       Val(DateStr(8, TRUE, "+0000")), Val(<<WEEK1>>), Val(5))>>
        ELSE IF p = "project-2"
        THEN <<RawTask("task-4", p, REPORT, Val(REPORT),
                       Val(DateStr(1, TRUE, "+0000")), Val(<<DAY30>>), Val(2))>>
        ELSE <<[RawTask("task-3", p, MILK, Val(MILK), Absent, Absent, Val(0))
                   EXCEPT !.desc = Val(NOTE),
                          !.items = Val(<<[id |-> Val("item-1"), title |-> Val(EGGS),
                                           status |-> Val(1)]>>)]>>]

TypeOK ==
    /\ ticktick \in {"None", "client"}
    /\ clock \in 1..MaxNow
    /\ ret.kind \in {"return", "raise"}

Init ==
    /\ ticktick = "None"
    /\ projects = Listing
    /\ tasks_by_project = FixtureTasks
    /\ clock = 1
    /\ tool = "none"
    /\ args = [none |-> TRUE]
    /\ trace = <<>>
    /\ ret = Text("", <<>>)

\* One invocation: the handler runs to completion.
Invoke(name, a, run) ==
    /\ tool' = name
    /\ args' = a
    /\ ticktick' = run.ticktick
    /\ trace' = run.trace
    /\ ret' = run.ret
    /\ UNCHANGED <<projects, tasks_by_project, clock>>

\* ensure_inbox_project_included appends to the list object the client
\* returned.  This is that object after get_projects, get_tasks or
\* search_tasks ran: they reach the call once the listing was answered.
ListingAfter(handle, env, faults, listing) ==
    IF EnsureClient(handle, env).ok /\ Outcome(faults, "get_projects", "") = "ok"
    THEN ensure_inbox_project_included(listing)
    ELSE listing

\* An invocation that lists the projects.  shared: the client hands out the
\* list it keeps (as the client of test_search_tasks.py does), so the
\* handler's append is seen by later invocations; otherwise the list is a
\* fresh copy.
InvokeListing(name, a, run, shared, after) ==
    /\ tool' = name
    /\ args' = a
    /\ ticktick' = run.ticktick
    /\ trace' = run.trace
    /\ ret' = run.ret
    /\ projects' = IF shared THEN after ELSE projects
    /\ UNCHANGED <<tasks_by_project, clock>>

\* initialize_client only runs while the handle is unset.
Envs == IF ticktick = "None" THEN InitEnvs ELSE {"ok"}

MaxFaults == 1

RECURSIVE FaultSetsUpTo(_, _)
FaultSetsUpTo(candidates, n) ==
    IF n = 0 THEN {{}}
    ELSE LET smaller == FaultSetsUpTo(candidates, n - 1)
         IN  smaller \cup
             UNION {{fs \cup {f} :
                        f \in {c \in candidates :
                                 \A g \in fs : g.op # c.op \/ g.target # c.target}} :
                    fs \in smaller}

CallFaults(op, target) == {Fault(op, target, k) : k \in {"error", "none", "raise"}}

\* No upstream call follows a failed initialization, so its outcome is moot.
OneCall(env, op, target) ==
    IF env = "ok" THEN {{}} \cup {{f} : f \in CallFaults(op, target)} ELSE {{}}

\* get_project_with_data_model: a ValueError, another exception, or a dict
\* with the sentinel where a ProjectData is expected.
FetchFaults ==
    {Fault("get_project_with_data_model", p, k) :
        p \in ProjectIds, k \in {"ValueError", "raise", "error"}}

\* Either the listing fails, or up to MaxFaults of the fetches do.
AggregationFaults ==
    {{f} : f \in CallFaults("get_projects", "")}
    \cup FaultSetsUpTo(FetchFaults, MaxFaults)

Aggregation(env) == IF env = "ok" THEN AggregationFaults ELSE {{}}

Tick ==
    /\ clock < MaxNow
    /\ clock' = clock + 1
    /\ UNCHANGED <<ticktick, projects, tasks_by_project, tool, args, trace, ret>>

get_projects ==
    \E env \in Envs, shared \in BOOLEAN :
        \E faults \in OneCall(env, "get_projects", "") :
            InvokeListing("get_projects", [none |-> TRUE],
                          get_projects_run(ticktick, env, faults, projects),
                          shared, ListingAfter(ticktick, env, faults, projects))

get_project ==
    \E env \in Envs, project_id \in {"project-1", "nope"} :
        \E faults \in OneCall(env, "get_project", project_id) :
            Invoke("get_project", [project_id |-> project_id],
                   get_project_run(ticktick, env, faults, projects, project_id))

get_tasks_call(env, faults, shared, project_id, overdue_only, due_in_next_7_days, status, tags) ==
    InvokeListing("get_tasks",
           [project_id |-> project_id, overdue_only |-> overdue_only,
            due_in_next_7_days |-> due_in_next_7_days, status |-> status,
            tags |-> tags, now |-> clock],
           get_tasks_run(ticktick, env, faults, projects, tasks_by_project, clock,
                         project_id, overdue_only, due_in_next_7_days, status, tags),
           shared, ListingAfter(ticktick, env, faults, projects))

get_tasks ==
    \E env \in Envs, shared \in BOOLEAN :
        \/ \E faults \in Aggregation(env), project_id \in {Null, Val("project-1")} :
               get_tasks_call(env, faults, shared, project_id, FALSE, FALSE, Null, Null)
        \/ \E a \in {<<Val("nope"), Null, Null>>, <<Val("inbox"), Null, Null>>,
                     <<Val(""), Null, Null>>, <<Null, Val(ACTIVE_MIXED), Null>>,
                     <<Val("project-1"), Null, Val(<<WEEK>>)>>} :
               get_tasks_call(env, {}, shared, a[1], FALSE, FALSE, a[2], a[3])

search_tasks_call(env, faults, shared, keywords, project_id, tags, status) ==
    InvokeListing("search_tasks",
           [keywords |-> keywords, project_id |-> project_id, tags |-> tags,
            status |-> status],
           search_tasks_run(ticktick, env, faults, projects, tasks_by_project,
                            keywords, project_id, tags, status),
           shared,
           IF status # Absent THEN projects
           ELSE ListingAfter(ticktick, env, faults, projects))

search_tasks ==
    \E env \in Envs, shared \in BOOLEAN :
        \/ \E faults \in Aggregation(env), project_id \in {Null, Val("project-1")} :
               search_tasks_call(env, faults, shared, <<>>, project_id, Null, Absent)
        \/ \E project_id \in {Null, Val("project-1"), Val("nope")} :
               search_tasks_call(env, {}, shared, <<MILK>>, project_id, Null, Absent)
        \/ search_tasks_call(env, {}, shared, <<>>, Val("nope"), Null, Absent)
        \/ search_tasks_call(env, {}, shared, <<>>, Null, Val(<<WEEK>>), Absent)
        \/ \E a \in {<<Null, ACTIVE>>, <<Null, COMPLETED>>, <<Val(<<DAY30>>), ACTIVE>>} :
               search_tasks_call(env, {}, shared, <<>>, Null, a[1], Val(a[2]))

get_task ==
    \E env \in Envs, task_id \in {"task-1", "task-5", "nope"} :
        \E faults \in OneCall(env, "get_task", task_id) :
            Invoke("get_task", [project_id |-> "project-1", task_id |-> task_id],
                   get_task_run(ticktick, env, faults, tasks_by_project,
                                "project-1", task_id))

StartDates == {Null, Val(DateStr(5, TRUE, "Z")), Val(JunkStr(FALSE))}
DueDates == {Null, Val(DateStr(6, FALSE, "")), Val(JunkStr(TRUE)), Val(EmptyStr)}

create_task ==
    \E env \in Envs : \E faults \in OneCall(env, "create_task", "project-1"),
       start_date \in StartDates, due_date \in DueDates,
       priority \in {Val(0), Val(2)} :
        Invoke("create_task",
               [start_date |-> start_date, due_date |-> due_date,
                priority |-> priority],
               create_task_run(ticktick, env, faults, MILK, "project-1",
                               Null, start_date, due_date, priority))

update_task ==
    \E env \in Envs : \E faults \in OneCall(env, "update_task", "task-1"),
       start_date \in {Null, Val(JunkStr(FALSE))},
       due_date \in {Null, Val(DateStr(6, FALSE, ""))},
       priority \in {Null, Val(4)} :
        Invoke("update_task",
               [start_date |-> start_date, due_date |-> due_date,
                priority |-> priority],
               update_task_run(ticktick, env, faults, tasks_by_project,
                               "task-1", "project-1", Null, Null,
                               start_date, due_date, priority))

complete_task ==
    \E env \in Envs : \E faults \in OneCall(env, "complete_task", "task-1") :
        Invoke("complete_task", [project_id |-> "project-1", task_id |-> "task-1"],
               complete_task_run(ticktick, env, faults, "project-1", "task-1"))

delete_task ==
    \E env \in Envs : \E faults \in OneCall(env, "delete_task", "task-1") :
        Invoke("delete_task", [project_id |-> "project-1", task_id |-> "task-1"],
               delete_task_run(ticktick, env, faults, "project-1", "task-1"))

create_project ==
    \E env \in Envs : \E faults \in OneCall(env, "create_project", "Home"),
       view_mode \in {"list", "board"} :
        Invoke("create_project", [view_mode |-> view_mode],
               create_project_run(ticktick, env, faults, "Home", "#F18181", view_mode))

delete_project ==
    \E env \in Envs : \E faults \in OneCall(env, "delete_project", "project-2") :
        Invoke("delete_project", [project_id |-> "project-2"],
               delete_project_run(ticktick, env, faults, "project-2"))

Next ==
    \/ get_projects
    \/ get_project
    \/ get_tasks
    \/ get_task
    \/ create_task
    \/ update_task
    \/ complete_task
    \/ delete_task
    \/ create_project
    \/ delete_project
    \/ search_tasks

Spec == Init /\ [][Next]_vars

(***************************************************************************)
(* The filter pipelines over bounded task sets.  The handle is the one a   *)
(* successful initialization left, the upstream answers every call, and    *)
(* project-1 holds up to MaxTasks tasks drawn from a pool.                 *)
(***************************************************************************)
MILK_UPPER == <<"M","I","L","K">>
PORT == <<"p","o","r","t">>
ZZ == <<"z","z">>

TaskId(i) == "task-" \o ToString(i)

\* Sequences of at most MaxTasks pool entries, as the tasks of project-1.
Worlds(pool) ==
    {[p \in ProjectIds |->
        IF p = "project-1"
        THEN [i \in 1..Len(w) |-> [w[i] EXCEPT !.id = Val(TaskId(i))]]
        ELSE <<>>] :
     w \in UNION {[1..n -> pool] : n \in 0..MaxTasks}}

Due(d) == Val(DateStr(d, TRUE, "+0000"))
NaiveDue(d) == Val(DateStr(d, TRUE, ""))

\* With the clock at 1: due 0 is overdue, 1 is now, 8 is now + 7 days and
\* 9 is beyond the window.
DateTaskPool ==
    {RawTask("", "project-1", MILK, Val(MILK), due, Val(<<WEEK1>>), Val(0)) :
        due \in {Absent, NaiveDue(1), Due(0), Due(1), Due(8), Due(9)}}
    \cup
    {RawTask("", "project-1", MILK, Val(MILK), Due(1), Val(<<WEEK1>>), Val(st)) :
        st \in {2, 5}}

FilterInit(pool) ==
    /\ ticktick = "client"
    /\ projects = <<ProjectDict("project-1", "Project 1")>>
    /\ tasks_by_project \in Worlds(pool)
    /\ clock = 1
    /\ tool = "none"
    /\ args = [none |-> TRUE]
    /\ trace = <<>>
    /\ ret = Text("", <<>>)

DateInit == FilterInit(DateTaskPool)

get_tasks_by_date ==
    \E overdue_only \in BOOLEAN, due_in_next_7_days \in BOOLEAN,
       status \in {Null, Val(ACTIVE), Val(COMPLETED)} :
        get_tasks_call("ok", {}, FALSE, Null, overdue_only, due_in_next_7_days, status, Null)

DateNext == Tick \/ get_tasks_by_date

DateSpec == DateInit /\ [][DateNext]_vars

SearchTaskPool ==
    {RawTask("", "project-1", title, content, Absent, Val(<<WEEK1>>), Val(0)) :
        title \in {MILK, REPORT}, content \in {Absent, Val(OAT_MILK), Val(<<>>)}}
    \cup
    {RawTask("", "project-1", MILK, Val(REPORT), Absent, tags, Val(st)) :
        tags \in {Absent, Val(<<WEEK1>>), Val(<<DAY30, WEEK1_UPPER>>)}, st \in {0, 2}}

SearchInit == FilterInit(SearchTaskPool)

search_tasks_by_keyword ==
    \E keywords \in {<<>>, <<MILK_UPPER>>, <<ZZ, PORT>>},
       tags \in {Null, Val(<<>>), Val(<<WEEK1_UPPER>>), Val(<<WEEK>>)} :
        search_tasks_call("ok", {}, FALSE, keywords, Null, tags, Absent)

get_tasks_by_tag ==
    \E tags \in {Null, Val(<<>>), Val(<<WEEK1_UPPER>>), Val(<<WEEK>>)} :
        get_tasks_call("ok", {}, FALSE, Null, FALSE, FALSE, Null, tags)

SearchNext == search_tasks_by_keyword \/ get_tasks_by_tag

SearchSpec == SearchInit /\ [][SearchNext]_vars

(***************************************************************************)
(* Properties.                                                             *)
(***************************************************************************)
\* The projects an aggregation visits, in order: the listing with the inbox,
\* or only the project whose id was given.
FetchOrder(project_id) ==
    SelectSeq(ensure_inbox_project_included(projects),
              LAMBDA p : ~IdTruthy(project_id) \/ p.id = project_id)

\* The tasks the upstream holds for these projects, in fetch order.
CandidatesOf(project_id) ==
    Concat([i \in 1..Len(FetchOrder(project_id)) |->
               tasks_by_project[FetchOrder(project_id)[i].id.v]])

Candidates == CandidatesOf(Null)

\* The task with this id is among the tasks the last invocation returned.
Shown(id) == \E i \in 1..Len(ret.tasks) : ret.tasks[i].id = id

HasInstant(task) == IsVal(task.dueDate) /\ task.dueDate.v.zone # ""

DueDay(task) == task.dueDate.v.day

\* C1: in get_tasks with overdue_only and/or due_in_next_7_days set (and no
\* status filter that drops it), a non-completed task whose due date is an
\* instant is returned iff (overdue_only and due < now) or
\* (due_in_next_7_days and now <= due <= now + 7 days); hence both flags give
\* the union, and a task due after now + 7 days is never returned.
C1_RelativeDateFilter ==
    (tool = "get_tasks" /\ (args.overdue_only \/ args.due_in_next_7_days))
    => \A i \in 1..Len(Candidates) :
          LET t == Candidates[i]
          IN  /\ (/\ ret.head # "Error getting tasks: "
                  /\ args.status # Val(COMPLETED)
                  /\ t.status # Val(2)
                  /\ HasInstant(t))
                 => (Shown(t.id) <=>
                        \/ args.overdue_only /\ DueDay(t) < args.now
                        \/ /\ args.due_in_next_7_days
                           /\ args.now <= DueDay(t)
                           /\ DueDay(t) <= args.now + 7)
              /\ (HasInstant(t) /\ DueDay(t) > args.now + 7) => ~Shown(t.id)

\* Both flags set: an overdue task and a task due exactly at now + 7 days are
\* returned together.
C1_Witness ==
    /\ tool = "get_tasks"
    /\ args.overdue_only /\ args.due_in_next_7_days
    /\ ret.head = "Found tasks:"
    /\ \E i, j \in 1..Len(ret.tasks) :
          /\ ret.tasks[i].dueDate.v.day < args.now
          /\ ret.tasks[j].dueDate.v.day = args.now + 7

\* C10: in get_tasks without date flags and tags, status "active" drops
\* exactly the tasks with status 2, status "completed" drops exactly the
\* tasks with another status, and no status drops nothing.
C10_StatusFilter ==
    (tool = "get_tasks" /\ ~args.overdue_only /\ ~args.due_in_next_7_days
        /\ args.tags = Null)
    => \A i \in 1..Len(Candidates) :
          LET t == Candidates[i]
          IN  Shown(t.id) <=>
                 \/ args.status = Null
                 \/ args.status = Val(ACTIVE) /\ t.status # Val(2)
                 \/ args.status = Val(COMPLETED) /\ t.status = Val(2)

\* status "active" returned a task with the unknown code 5 and dropped a
\* completed one.
C10_Witness ==
    /\ tool = "get_tasks"
    /\ ~args.overdue_only /\ ~args.due_in_next_7_days
    /\ args.status = Val(ACTIVE)
    /\ \E i, j \in 1..Len(Candidates) :
          /\ Candidates[i].status = Val(5) /\ Shown(Candidates[i].id)
          /\ Candidates[j].status = Val(2) /\ ~Shown(Candidates[j].id)

\* The ids of a sequence of tasks, in order.
Ids(tasks) == [i \in 1..Len(tasks) |-> tasks[i].id]

NotCompleted(task) == task.status # Val(2)

EmptyTags(tags) == tags = Null \/ tags = Val(<<>>)

\* Every step of the invocation succeeded: the initialization if there was
\* one, and every upstream call.
NoFault(tr) == \A i \in 1..Len(tr) : tr[i].outcome = "ok"

\* C2: search_tasks with empty keywords, empty tags and no status argument
\* returns every task whose status is not 2 and no task whose status is 2,
\* in fetch order.
C2_SearchDefaultsToActive ==
    (tool = "search_tasks" /\ args.keywords = <<>> /\ EmptyTags(args.tags)
        /\ args.status = Absent /\ NoFault(trace))
    => Ids(ret.tasks) = Ids(SelectSeq(CandidatesOf(args.project_id), NotCompleted))

StatusLine(block) ==
    block[CHOOSE i \in 1..Len(block) : block[i].label = "Status"].text

UnknownStatus(task) == task.status \notin {Val(0), Val(2)}

\* C3: get_task on a task whose status is neither 0 nor 2 renders
\* "Status: Unknown (<value>)", and get_tasks / search_tasks render the same
\* task with "Status: Active".
C3_UnknownStatusDisplay ==
    /\ (tool = "get_task" /\ ret.tasks # <<>> /\ UnknownStatus(ret.tasks[1]))
       => StatusLine(ret.blocks[1])
            = <<"Unknown (", ToString(ret.tasks[1].status.v), ")">>
    /\ tool \in {"get_tasks", "search_tasks"}
       => \A i \in 1..Len(ret.tasks) :
             UnknownStatus(ret.tasks[i]) => StatusLine(ret.blocks[i]) = <<"Active">>

\* Some keyword is a case-insensitive substring of the title or of the
\* content (a task without content has no content to match).
KeywordHit(task, keywords) ==
    \E i \in 1..Len(keywords) :
        \/ IsSubstring(Lower(keywords[i]), Lower(task.title.v))
        \/ IsVal(task.content) /\ IsSubstring(Lower(keywords[i]), Lower(task.content.v))

\* C4: search_tasks never ends in an error because of a task in the
\* candidate set, and (without a tag filter) it returns a task iff the
\* keyword list is empty or some keyword is a case-insensitive substring of
\* the task's title or content.
C4_KeywordFilter ==
    tool = "search_tasks"
    => /\ ret.head # "Error searching tasks: "
       /\ EmptyTags(args.tags)
          => \A i \in 1..Len(Candidates) :
                Shown(Candidates[i].id)
                <=> (args.keywords = <<>> \/ KeywordHit(Candidates[i], args.keywords))

\* C5: every invocation of a tool ends by returning text; none raises.
C5_HandlersReturnText == ret.kind = "return"

IsUpstream(e) == e.op \in UpstreamOps

UpstreamCalls(tr) == SelectSeq(tr, IsUpstream)

Fetches(tr) == SelectSeq(tr, LAMBDA e : e.op = "get_project_with_data_model")

Selected(project_id) ==
    {FetchOrder(project_id)[i].id.v : i \in 1..Len(FetchOrder(project_id))}

\* C6: in get_tasks and search_tasks, when the fetch of one selected project
\* fails, the other selected projects are still fetched, their tasks are
\* returned and the result is not an error string.
C6_PartialFailure ==
    (/\ tool \in {"get_tasks", "search_tasks"}
     /\ \E i \in 1..Len(Fetches(trace)) : Fetches(trace)[i].outcome # "ok")
    => /\ ret.head \notin {"Error getting tasks: ", "Error searching tasks: "}
       /\ \A p \in Selected(args.project_id) :
             \E i \in 1..Len(Fetches(trace)) :
                /\ Fetches(trace)[i].target = p
                /\ Fetches(trace)[i].outcome = "ok"
                   => \A j \in 1..Len(tasks_by_project[p]) :
                         Shown(tasks_by_project[p][j].id)

\* The task passes the tag filter of the arguments.
TagPass(task, tags) ==
    EmptyTags(tags) \/ (IsVal(task.tags) /\ TagsMatch(task, tags.v))

\* C11: search_tasks takes a status argument: "completed" returns exactly the
\* tasks with status 2 that pass the tag filter, "active" returns every
\* task with status 0 that passes the tag filter and no task with status 2.
C11_SearchStatusFilter ==
    (tool = "search_tasks" /\ args.status # Absent /\ args.keywords = <<>>
        /\ NoFault(trace))
    => /\ ret.kind = "return"
       /\ \A i \in 1..Len(CandidatesOf(args.project_id)) :
             LET t == CandidatesOf(args.project_id)[i]
             IN  /\ args.status = Val(COMPLETED)
                    => (Shown(t.id) <=> (t.status = Val(2) /\ TagPass(t, args.tags)))
                 /\ args.status = Val(ACTIVE)
                    => /\ (t.status = Val(0) /\ TagPass(t, args.tags)) => Shown(t.id)
                       /\ (t.status = Val(2) \/ ~TagPass(t, args.tags)) => ~Shown(t.id)

\* Some filter tag equals some tag of the task, both lower-cased.
ExactTagHit(task, tags) ==
    /\ IsVal(task.tags)
    /\ \E i \in 1..Len(tags) : \E j \in 1..Len(task.tags.v) :
          Lower(tags[i]) = Lower(task.tags.v[j])

ErrorHeads == {"Error getting tasks: ", "Error searching tasks: "}

\* C12: in get_tasks and search_tasks (no other filter dropping the task),
\* with a non-empty tag list a task is returned iff some filter tag equals
\* one of its tags after lower-casing both; with an empty or omitted tag
\* list no task is dropped for its tags.
C12_TagMatching ==
    (/\ tool \in {"get_tasks", "search_tasks"}
     /\ ret.kind = "return" /\ ret.head \notin ErrorHeads
     /\ tool = "get_tasks"
        => (~args.overdue_only /\ ~args.due_in_next_7_days /\ args.status = Null))
    => \A i \in 1..Len(CandidatesOf(args.project_id)) :
          LET t == CandidatesOf(args.project_id)[i]
              others == tool = "search_tasks"
                        => (args.keywords = <<>> \/ KeywordHit(t, args.keywords))
          IN  Shown(t.id)
              <=> (others /\ (EmptyTags(args.tags) \/ ExactTagHit(t, args.tags.v)))

\* The filter tag "WEEK1" kept a task tagged "week1", and dropped another.
C12_Witness ==
    /\ tool \in {"get_tasks", "search_tasks"}
    /\ args.tags = Val(<<WEEK1_UPPER>>)
    /\ \E i, j \in 1..Len(Candidates) :
          /\ Candidates[i].tags = Val(<<WEEK1>>) /\ Shown(Candidates[i].id)
          /\ ~Shown(Candidates[j].id)

\* The relative date filter admits the task: an instant inside the window
\* the flags ask for.
InWindow(task) ==
    /\ HasInstant(task)
    /\ \/ args.overdue_only /\ DueDay(task) < args.now
       \/ /\ args.due_in_next_7_days
          /\ args.now <= DueDay(task) /\ DueDay(task) <= args.now + 7

\* C13: in get_tasks with overdue_only or due_in_next_7_days set, a task
\* without a due date, or with a due date that is not a comparable instant,
\* is left out, the query does not end in an error, and the other tasks are
\* still returned as the filters decide.
C13_UncomparableDueDate ==
    (tool = "get_tasks" /\ (args.overdue_only \/ args.due_in_next_7_days))
    => /\ ret.head # "Error getting tasks: "
       /\ \A i \in 1..Len(Candidates) :
             LET t == Candidates[i]
             IN  /\ ~HasInstant(t) => ~Shown(t.id)
                 /\ (/\ InWindow(t) /\ t.status # Val(2)
                     /\ args.status # Val(COMPLETED))
                    => Shown(t.id)

\* The invocation got through initialization, listing and fetches: nothing
\* failed except fetches that were skipped.
Tolerated(tr) == \A i \in 1..Len(tr) : tr[i].outcome \in {"ok", "ValueError"}

\* C14: when get_tasks or search_tasks ends with no task left, get_tasks
\* returns exactly "No tasks found in project '<id>'." if a project id was
\* given and "No tasks found." otherwise, and search_tasks returns exactly
\* "No tasks found matching the provided keywords."; this includes a project
\* id that matches no project.  With tasks left the result starts with
\* "Found tasks:".
C14_EmptyResultText ==
    (/\ tool \in {"get_tasks", "search_tasks"}
     /\ ret.kind = "return" /\ ret.head \notin ErrorHeads
     /\ Tolerated(trace))
    => /\ CandidatesOf(args.project_id) = <<>> => ret.tasks = <<>>
       /\ ret.tasks # <<>> => ret.head = "Found tasks:"
       /\ (ret.tasks = <<>> /\ tool = "search_tasks")
          => ret = Text("No tasks found matching the provided keywords.", <<>>)
       /\ (ret.tasks = <<>> /\ tool = "get_tasks" /\ IdTruthy(args.project_id))
          => ret = Text("No tasks found in project '", <<args.project_id.v, "'.">>)
       /\ (ret.tasks = <<>> /\ tool = "get_tasks" /\ ~IdTruthy(args.project_id))
          => ret = Text("No tasks found.", <<>>)

\* get_tasks for a project that holds tasks, all of them dropped by the tag
\* filter.
C14_Witness ==
    /\ tool = "get_tasks"
    /\ args.project_id = Val("project-1") /\ args.tags = Val(<<WEEK>>)
    /\ CandidatesOf(args.project_id) # <<>>
    /\ ret = Text("No tasks found in project '", <<"project-1", "'.">>)

IsJunk(date) == IsVal(date) /\ date.v.body = "junk"

Malformed ==
    \/ tool = "create_task"
       /\ (~is_valid(args.priority) \/ IsJunk(args.start_date) \/ IsJunk(args.due_date))
    \/ tool = "update_task"
       /\ \/ args.priority # Null /\ ~is_valid(args.priority)
          \/ IsJunk(args.start_date) \/ IsJunk(args.due_date)
    \/ tool = "create_project" /\ args.view_mode \notin ViewModes

Rejections ==
    {INVALID_PRIORITY, INVALID_VIEW_MODE,
     "Invalid date format. Use ISO format: YYYY-MM-DDThh:mm:ss+0000"}

\* C7: create_task, update_task and create_project answer malformed input
\* (invalid priority, invalid view_mode, unparseable date) with the
\* descriptive message, and the invocation makes no upstream call.
C7_RejectBeforeNetwork ==
    Malformed => (ret.head \in Rejections /\ UpstreamCalls(trace) = <<>>)

HasInit(tr) == \E i \in 1..Len(tr) : tr[i].op = "initialize_client"

\* C8: once the handle is set, every later invocation keeps it and does not
\* call initialize_client.
C8_InitializedOnce ==
    [][ticktick = "client" => (ticktick' = "client" /\ ~HasInit(trace'))]_vars

\* An invocation used the handle an earlier invocation had set: it made an
\* upstream call without initializing.
C8_Witness ==
    /\ ticktick = "client"
    /\ tool = "get_tasks"
    /\ ~HasInit(trace)
    /\ UpstreamCalls(trace) # <<>>

MissingCredentials(tr) ==
    \E i \in 1..Len(tr) : tr[i] = Ev("initialize_client", "", "no_token")

\* C9: an invocation whose initialization finds no access token returns the
\* fixed string, does not raise and makes no upstream call.
C9_MissingCredentials ==
    MissingCredentials(trace)
    => /\ ret = Text("Failed to initialize TickTick client. Please check your API credentials.", <<>>)
       /\ UpstreamCalls(trace) = <<>>

\* search_tasks was invoked while the token was missing.
C9_Witness ==
    /\ tool = "search_tasks"
    /\ MissingCredentials(trace)
    /\ ret.head = FAILED_INIT

InboxCount(ps) == Cardinality({i \in 1..Len(ps) : ps[i].id = Val("inbox")})

ProjectIdsOf(ps) == [i \in 1..Len(ps) |-> ps[i].id.v]

\* The ids a listing is expected to show: the listed ones in their order,
\* then the inbox if the listing lacks it.
WithInbox(ps) ==
    IF InboxCount(ps) = 0 THEN Append(ProjectIdsOf(ps), "inbox") ELSE ProjectIdsOf(ps)

\* The ID lines of the projects get_projects rendered.
ShownProjectIds(r) == [i \in 1..Len(r.blocks) |-> r.blocks[i][2].text[1]]

\* C15: every invocation leaves the project list as it was if it held an
\* inbox entry, and otherwise unchanged or with exactly the entry
\* {id: "inbox", name: "Inbox"} appended at the end; the list never holds two
\* inbox entries; get_projects shows, and get_tasks / search_tasks without
\* project id fetch, the listed projects in order followed by the inbox once.
C15_InboxInjectedOnce ==
    [][/\ InboxCount(projects') <= 1
       /\ \/ projects' = projects
          \/ /\ InboxCount(projects) = 0
             /\ projects' = Append(projects, ProjectDict("inbox", "Inbox"))
       /\ (tool' = "get_projects" /\ ret'.head = "Found projects:")
          => ShownProjectIds(ret') = WithInbox(projects)
       /\ (/\ tool' \in {"get_tasks", "search_tasks"}
           /\ ~IdTruthy(args'.project_id)
           /\ Fetches(trace') # <<>> /\ NoFault(trace'))
          => [i \in 1..Len(Fetches(trace')) |-> Fetches(trace')[i].target]
                = WithInbox(projects)
      ]_vars

\* get_projects ran on a list that holds the inbox entry and shows it once.
C15_Witness ==
    /\ tool = "get_projects"
    /\ ~HasInit(trace)
    /\ InboxCount(projects) = 1
    /\ ShownProjectIds(ret) = <<"project-1", "project-2", "inbox">>

\* The members of seq that are in keep, in the order of seq.
Restrict(seq, keep) == SelectSeq(seq, LAMBDA x : x \in SeqToSet(keep))

\* The ID line of every rendered task, in order.
ShownTaskIds(r) == [i \in 1..Len(r.blocks) |-> Val(r.blocks[i][1].text[1])]

\* C16: the tasks get_tasks and search_tasks return, and the blocks they
\* render, follow the fetch order (listed projects in order, an injected
\* inbox last, each project's tasks as the upstream holds them): the result
\* is the candidate sequence restricted to the tasks kept, so nothing is
\* reordered or repeated; without filters and failures it is the whole
\* candidate sequence.
C16_FetchOrder ==
    tool \in {"get_tasks", "search_tasks"}
    => /\ Ids(ret.tasks)
            = Restrict(Ids(CandidatesOf(args.project_id)), Ids(ret.tasks))
       /\ ret.tasks # <<>> => ShownTaskIds(ret) = Ids(ret.tasks)
       /\ (/\ ret.kind = "return" /\ NoFault(trace)
           /\ EmptyTags(args.tags)
           /\ tool = "get_tasks"
              => (/\ args.status = Null
                  /\ ~args.overdue_only /\ ~args.due_in_next_7_days)
           /\ tool = "search_tasks" => args.keywords = <<>>)
          => Ids(ret.tasks) = Ids(CandidatesOf(args.project_id))

\* A keyword search over all projects kept the first task of project-1 and
\* the inbox task, in that order.
C16_Witness ==
    /\ tool = "search_tasks"
    /\ args.keywords = <<MILK>>
    /\ Ids(ret.tasks) = <<Val("task-1"), Val("task-3")>>

\* The events of initialize_client at the head of a trace.
InitLen(tr) ==
    IF ~HasInit(tr) THEN 0
    ELSE IF tr[1].outcome = "no_token" THEN 1
    ELSE IF tr[1].outcome = "construct_raises" THEN 2
    ELSE 3

\* The upstream calls the handler itself made.
HandlerCalls(tr) == SubSeq(tr, InitLen(tr) + 1, Len(tr))

\* The calls whose result the handlers test with `'error' in`.
SentinelOps == UpstreamOps \ {"get_project_with_data_model"}

\* The prefix each handler puts in front of the upstream error text.
ErrorPrefix ==
    [get_projects |-> "Error fetching projects: ",
     get_project |-> "Error fetching project: ",
     get_tasks |-> "Error getting projects for task retrieval: ",
     search_tasks |-> "Error getting projects for task search: ",
     get_task |-> "Error fetching task: ",
     create_task |-> "Error creating task: ",
     update_task |-> "Error updating task: ",
     complete_task |-> "Error completing task: ",
     delete_task |-> "Error deleting task: ",
     create_project |-> "Error creating project: ",
     delete_project |-> "Error deleting project: "]

MutationDone ==
    ret.head \in {"Task created successfully:", "Task updated successfully:",
                  "Task deleted successfully."}

\* The project and the task a successful mutation was about.
Mutated ==
    IF tool = "delete_task"
    THEN [project_id |-> args.project_id, task_id |-> args.task_id]
    ELSE [project_id |-> ret.tasks[1].projectId.v, task_id |-> ret.tasks[1].id.v]

\* The success text carries the line "URL: <url of the task>".
HasUrlLine ==
    \E b \in 1..Len(ret.blocks) : \E l \in 1..Len(ret.blocks[b]) :
        ret.blocks[b][l]
            = Line("URL", <<"https://ticktick.com/webapp/#p/", Mutated.project_id,
                            "/tasks/", Mutated.task_id>>)

\* C18 as claimed: the success text of create_task, update_task and
\* delete_task contains the URL line of the task.
C18_MutationsAttachUrl ==
    (tool \in {"create_task", "update_task", "delete_task"} /\ MutationDone)
    => HasUrlLine

\* C18 amended: the success text of create_task and update_task contains
\* the URL line of the task.
C18_CreateUpdateAttachUrl ==
    (tool \in {"create_task", "update_task"} /\ MutationDone) => HasUrlLine

\* update_task succeeded and rendered the task with its URL.
C18_Witness ==
    /\ tool = "update_task"
    /\ MutationDone
    /\ HasUrlLine

\* The fields of a task record that hold text, a date, a number or a list.
TaskFields ==
    {"id", "title", "projectId", "url", "startDate", "dueDate", "priority",
     "status", "tags", "content", "desc", "items"}

\* The fields format_task reads.
RenderedFields == TaskFields \ {"desc"}

\* The field is set on the record: present, not None and not empty.
FieldSet(task, f) ==
    /\ IsVal(task[f])
    /\ f \in {"title", "content", "desc", "tags", "items"} => task[f].v # <<>>
    /\ f \in {"startDate", "dueDate"} => task[f].v # EmptyStr

PriorityText(v) ==
    IF v = 0 THEN <<"None">>
    ELSE IF v = 1 THEN <<"Low">>
    ELSE IF v = 3 THEN <<"Medium">>
    ELSE IF v = 5 THEN <<"High">>
    ELSE <<ToString(v)>>

\* The text a scalar field is expected to show as.
FieldText(f, v) ==
    IF f \in {"id", "projectId"} THEN <<v>>
    ELSE IF f \in {"startDate", "dueDate"} THEN DateText(v)
    ELSE IF f = "priority" THEN PriorityText(v)
    ELSE IF f = "status" THEN (IF v = 2 THEN <<"Completed">> ELSE <<"Active">>)
    ELSE v

\* Some line of the block contains the text.
Contains(block, text) ==
    \E l \in 1..Len(block) : IsSubstring(text, block[l].text)

\* The value of the field is in the block: every tag, every subtask title,
\* or the text of the scalar.
Appears(task, f, block) ==
    IF f = "tags"
    THEN \A k \in 1..Len(task.tags.v) : Contains(block, task.tags.v[k])
    ELSE IF f = "items"
    THEN \A k \in 1..Len(task.items.v) : Contains(block, task.items.v[k].title.v)
    ELSE Contains(block, FieldText(f, task[f].v))

\* Every one of these fields that is set on a rendered task appears in its
\* block.
AllAppear(fields) ==
    \A i \in 1..Len(ret.tasks) : \A f \in fields :
        FieldSet(ret.tasks[i], f) => Appears(ret.tasks[i], f, ret.blocks[i])

\* C19 as claimed: every field that is set on a task appears in the text
\* format_task produced for it.
C19_EveryFieldShown == AllAppear(TaskFields)

\* C19 amended: every field among id, title, projectId, url, startDate,
\* dueDate, priority, status, tags, content and items that is set on a task
\* appears in the text format_task produced for it, priority and status
\* through their labels.
C19_RenderedFieldsShown == AllAppear(RenderedFields)

\* A completed task with due date and tags was rendered.
C19_Witness ==
    \E i \in 1..Len(ret.tasks) :
        /\ ret.tasks[i].status = Val(2)
        /\ FieldSet(ret.tasks[i], "dueDate") /\ FieldSet(ret.tasks[i], "tags")
        /\ Contains(ret.blocks[i], <<"Completed">>)

\* The line each optional field of a task or a project is shown on.
OptionalTaskLines ==
    [url |-> "URL", startDate |-> "Start Date", dueDate |-> "Due Date",
     priority |-> "Priority", tags |-> "Tags", content |-> "Content",
     items |-> "Subtasks"]

OptionalProjectLines ==
    [color |-> "Color", viewMode |-> "View Mode", closed |-> "Closed",
     kind |-> "Kind"]

TaskLineOrder ==
    <<"ID", "Title", "Project ID", "URL", "Start Date", "Due Date", "Priority",
      "Status", "Tags", "Content", "Subtasks", "Subtask">>

ProjectLineOrder == <<"Name", "ID", "Color", "View Mode", "Closed", "Kind">>

Labels(block) == [l \in 1..Len(block) |-> block[l].label]

HasLine(block, lbl) == \E l \in 1..Len(block) : block[l].label = lbl

\* The projects get_projects rendered, in order.
ListedProjects ==
    IF tool = "get_projects" /\ ret.head = "Found projects:"
    THEN ensure_inbox_project_included(projects)
    ELSE <<>>

\* C20: in every rendered task and project the lines come in the fixed
\* order, and the line of an optional field (URL, start date, due date,
\* priority, tags, content, subtasks; color, view mode, closed, kind) is there
\* iff the field is set on the record.
C20_OptionalLines ==
    /\ \A i \in 1..Len(ret.tasks) :
          /\ Labels(ret.blocks[i]) = Restrict(TaskLineOrder, Labels(ret.blocks[i]))
          /\ \A f \in DOMAIN OptionalTaskLines :
                HasLine(ret.blocks[i], OptionalTaskLines[f])
                <=> FieldSet(ret.tasks[i], f)
    /\ \A i \in 1..Len(ListedProjects) :
          /\ Labels(ret.blocks[i]) = Restrict(ProjectLineOrder, Labels(ret.blocks[i]))
          /\ \A f \in DOMAIN OptionalProjectLines :
                HasLine(ret.blocks[i], OptionalProjectLines[f])
                <=> IsVal(ListedProjects[i][f])

\* The invocation ran initialize_client and it returned False.
InitFailed(tr) ==
    \E i \in 1..Len(tr) : tr[i].op = "initialize_client" /\ tr[i].outcome # "ok"

\* C21: after an invocation whose initialize_client reported failure (no
\* token, the constructor raising, or a failed connectivity test) the global
\* handle is unset, so the next invocation initializes again.
C21_FailedInitUnsetsHandle ==
    InitFailed(trace) => (ret.head = FAILED_INIT /\ ticktick = "None")

\* The handler's call of get_projects returned a list.
Listed(tr) ==
    /\ HandlerCalls(tr) # <<>>
    /\ HandlerCalls(tr)[1] = Ev("get_projects", "", "ok")

\* The project ids the invocation issued a detail fetch for, in order.
FetchedIds(tr) == [i \in 1..Len(Fetches(tr)) |-> Fetches(tr)[i].target]

\* C22: in get_tasks and search_tasks, once the listing is there, the detail
\* fetches issued are exactly those of the listed projects (inbox included)
\* whose id equals the given project id, or of every listed project once
\* when no id is given; an id matching no listed project gives no fetch and
\* the no-results message.
C22_FetchScope ==
    (tool \in {"get_tasks", "search_tasks"} /\ Listed(trace))
    => /\ FetchedIds(trace) = ProjectIdsOf(FetchOrder(args.project_id))
       /\ FetchOrder(args.project_id) = <<>>
          => ret = IF tool = "get_tasks"
                   THEN Text("No tasks found in project '", <<args.project_id.v, "'.">>)
                   ELSE Text("No tasks found matching the provided keywords.", <<>>)

\* C23: with overdue_only or due_in_next_7_days set, get_tasks returns no
\* task with status 2, whatever the status argument; with status "completed"
\* and a date flag it returns the no-tasks message for every task set, tasks
\* with an uncomparable due date included.
C23_DateFlagsDropCompleted ==
    (tool = "get_tasks" /\ (args.overdue_only \/ args.due_in_next_7_days))
    => /\ \A i \in 1..Len(ret.tasks) : NotCompleted(ret.tasks[i])
       /\ (IsVal(args.status) /\ Lower(args.status.v) = COMPLETED)
          => ret = Text("No tasks found.", <<>>)

\* status "completed" with overdue_only, on a task set holding a completed
\* task that is overdue and a task whose due date has no offset: nothing is
\* returned.
C23_Witness ==
    /\ tool = "get_tasks"
    /\ args.overdue_only /\ args.status = Val(COMPLETED)
    /\ \E i, j \in 1..Len(Candidates) :
          /\ Candidates[i].status = Val(2) /\ DueDay(Candidates[i]) < args.now
          /\ IsVal(Candidates[j].dueDate) /\ ~HasInstant(Candidates[j])
    /\ ret = Text("No tasks found.", <<>>)

====
